---- MODULE Spec2Model ----
(***************************************************************************)
(* A model of mongoose-safe-query (src/src/safeQuery.ts, src/src/types.ts). *)
(*                                                                         *)
(* Strings that the code takes apart (split, startsWith, join, sort) are   *)
(* sequences of one-character strings, so that these operations are        *)
(* computed and not assumed.  Callbacks are named by strings; the value a  *)
(* callback returns on an argument is the record of that application.      *)
(***************************************************************************)
EXTENDS Integers, Sequences, FiniteSets, TLC

----------------------------------------------------------------------------
(* Bounds of the model. *)

\* Largest weight (number of keys, nested ones included) of the filters
\* given to the field extractor on its own.
MaxWeight == 3

\* Largest number of keys of a filter sent through the query hook.
MaxQueryKeys == 2

\* Largest number of queries sent through the query hook in one behaviour.
MaxQueries == 2

\* Largest number of configuration setter calls in one behaviour.
MaxSetterCalls == 1

\* Largest length of the field list given to isCoveredByIndex on its own.
MaxFieldCount == 2

\* Largest number of indexes given to it, and of fields of one index.
MaxIndexes == 2

MaxIndexFields == 2

\* Callers that send the same query through the hook.
MaxCallers == 2

\* SafeQuery instances of one program that are given one same handler object.
MaxInstances == 2

\* Largest number of handler setter calls made on them in one behaviour.
MaxHandlerCalls == 2

----------------------------------------------------------------------------
(* Strings as sequences of characters. *)

\* UTF-16 code units of the characters the model uses: the order in which
\* _.sortBy compares strings.
CharCode ==
  [c \in {"$", ".", "_", "a", "b", "d", "e", "i", "n", "o", "p", "r", "s",
          "t", "x", "y"} |->
     CASE c = "$" -> 36  [] c = "." -> 46  [] c = "_" -> 95
       [] c = "a" -> 97  [] c = "b" -> 98  [] c = "d" -> 100
       [] c = "e" -> 101 [] c = "i" -> 105 [] c = "n" -> 110
       [] c = "o" -> 111 [] c = "p" -> 112 [] c = "r" -> 114
       [] c = "s" -> 115 [] c = "t" -> 116 [] c = "x" -> 120
       [] c = "y" -> 121]

Range(s) == {s[i] : i \in 1..Len(s)}

NoDuplicates(s) == \A i, j \in 1..Len(s) : s[i] = s[j] => i = j

\* s < t in JavaScript's string order.
StrLess(s, t) ==
  \E i \in 1..(Len(t)) :
    /\ \A j \in 1..(i - 1) : j <= Len(s) /\ s[j] = t[j]
    /\ \/ i = Len(s) + 1
       \/ i <= Len(s) /\ CharCode[s[i]] < CharCode[t[i]]

\* String.prototype.startsWith
startsWith(s, c) == Len(s) >= 1 /\ s[1] = c

\* s.split('.')[0]: the characters before the first '.'.
FirstSegment(s) ==
  LET dots == {i \in 1..Len(s) : s[i] = "."}
  IN  IF dots = {} THEN s
      ELSE SubSeq(s, 1, (CHOOSE i \in dots : \A j \in dots : i <= j) - 1)

\* Array.prototype.join('')
RECURSIVE join(_)
join(ss) == IF ss = <<>> THEN <<>> ELSE Head(ss) \o join(Tail(ss))

\* _.sortBy on an array of distinct strings: ascending order.
RECURSIVE sortBy(_)
sortBy(ss) ==
  IF ss = <<>> THEN <<>>
  ELSE LET least == CHOOSE x \in Range(ss) :
                      \A y \in Range(ss) : y = x \/ StrLess(x, y)
       IN  <<least>> \o sortBy(SelectSeq(ss, LAMBDA y : y # least))

----------------------------------------------------------------------------
(* Names. *)

k_and      == <<"$", "a", "n", "d">>
k_nor      == <<"$", "n", "o", "r">>
k_or       == <<"$", "o", "r">>
k_text     == <<"$", "t", "e", "x", "t">>
k_bsontype == <<"_", "b", "s", "o", "n", "t", "y", "p", "e">>
k_id       == <<"_", "i", "d">>
k_a        == <<"a">>
k_b        == <<"b">>
k_ab       == <<"a", "b">>
k_b_a      == <<"b", ".", "a">>
k_b_x      == <<"b", ".", "x">>

SUPPORTED_QUERY_SELECTORS == {k_and, k_nor, k_or}

FIELDS_TO_IGNORE == {k_bsontype}

----------------------------------------------------------------------------
(* Filters: a filter is the sequence of its entries, in Object.entries    *)
(* order; a value is an array of filters or anything else.                 *)

Scalar == [isArray |-> FALSE, items |-> <<>>]

Array(fs) == [isArray |-> TRUE, items |-> fs]

Entry(k, v) == [key |-> k, value |-> v]

Keys(f) == {f[i].key : i \in 1..Len(f)}

\* The keys the extractor is tried on.
ExtractKeys == {k_a, k_b_a, k_bsontype, k_and, k_nor, k_or, k_text}

\* The filters with exactly w keys in all, nested ones included, over the
\* keys ks; an array is not empty, and an empty filter inside it counts as
\* one key.
RECURSIVE FiltersOfWeight(_, _), ArraysOfWeight(_, _)
ValuesOfWeight(ks, w) ==
  IF w = 0 THEN {Scalar}
  ELSE {Array(a) : a \in ArraysOfWeight(ks, w)}

EntriesOfWeight(ks, w) ==
  {Entry(k, v) : k \in ks, v \in ValuesOfWeight(ks, w - 1)}

FiltersOfWeight(ks, w) ==
  IF w = 0 THEN {<<>>}
  ELSE UNION {
         {f \in {<<e>> \o rest : e \in EntriesOfWeight(ks, n),
                                 rest \in FiltersOfWeight(ks, w - n)} :
            f[1].key \notin Keys(Tail(f))}
         : n \in 1..w }

ArraysOfWeight(ks, w) ==
  IF w = 0 THEN {<<>>}
  ELSE UNION {
         {<<f>> \o rest :
            f \in FiltersOfWeight(ks, n) \cup (IF n = 1 THEN {<<>>} ELSE {}),
            rest \in ArraysOfWeight(ks, w - n)}
         : n \in 1..w }

Filters(ks, w) == UNION {FiltersOfWeight(ks, n) : n \in 0..w}

----------------------------------------------------------------------------
(* SafeQuery.getRootQueryFields *)

\* Set.prototype.add on the insertion-ordered set acc.
SetAdd(acc, f) == IF f \in Range(acc) THEN acc ELSE Append(acc, f)

RECURSIVE SetAddAll(_, _)
SetAddAll(acc, fs) ==
  IF fs = <<>> THEN acc ELSE SetAddAll(SetAdd(acc, Head(fs)), Tail(fs))

\* The key taken whole, dotted path and all.
RootFieldWithoutSplit(fieldOrOperator) == fieldOrOperator

\* const field = fieldOrOperator.split('.')[0]
RootField(fieldOrOperator) == FirstSegment(fieldOrOperator)

\* SUPPORTED_QUERY_SELECTORS.includes(fieldOrOperator)
IsSupportedSelector(fieldOrOperator) ==
  fieldOrOperator \in SUPPORTED_QUERY_SELECTORS

RECURSIVE getRootQueryFields(_), FieldsOfEntries(_, _), FieldsOfArray(_, _)
\* The loop over Object.entries(queryConditions), from the entries es on,
\* with queryFields = acc.
FieldsOfEntries(es, acc) ==
  IF es = <<>> THEN acc
  ELSE LET fieldOrOperator == Head(es).key
           expression == Head(es).value
       IN  IF fieldOrOperator \in FIELDS_TO_IGNORE
             THEN FieldsOfEntries(Tail(es), acc)
           ELSE IF IsSupportedSelector(fieldOrOperator) /\ expression.isArray
             THEN FieldsOfEntries(Tail(es), FieldsOfArray(expression.items, acc))
           ELSE IF ~startsWith(fieldOrOperator, "$")
             THEN FieldsOfEntries(Tail(es), SetAdd(acc, RootField(fieldOrOperator)))
           ELSE FieldsOfEntries(Tail(es), acc)

\* for (const subConditions of expression) ...forEach(f => queryFields.add(f))
FieldsOfArray(subs, acc) ==
  IF subs = <<>> THEN acc
  ELSE FieldsOfArray(Tail(subs), SetAddAll(acc, getRootQueryFields(Head(subs))))

getRootQueryFields(queryConditions) == FieldsOfEntries(queryConditions, <<>>)

----------------------------------------------------------------------------
(* SafeQuery.getNonExistingFields, isCoveredByIndex, hash *)

\* The filter without its negation: the fields that exist.
getExistingFields(queryFields, modelFields) ==
  SelectSeq(queryFields, LAMBDA f : f \in modelFields)

\* queryFields.filter(f => !modelFields.has(f))
getNonExistingFields(queryFields, modelFields) ==
  SelectSeq(queryFields, LAMBDA f : f \notin modelFields)

\* Numbers are fractions <<numerator, denominator>> with a positive
\* denominator; <<0, 0>> stands for a minCoverage that is not given.
UndefinedNumber == <<0, 0>>

Fraction(n, d) == <<n, d>>

\* The inner loop comparing the whole index field, dotted path and all.
RECURSIVE coveredFieldCountByFullPath(_, _)
coveredFieldCountByFullPath(index, queryFieldSet) ==
  IF index = <<>> THEN 0
  ELSE IF Head(index) \in queryFieldSet
    THEN 1 + coveredFieldCountByFullPath(Tail(index), queryFieldSet)
    ELSE 0

\* The inner loop without its break: every field of the index whose first
\* segment is a query field counts.
RECURSIVE coveredFieldCountWithoutBreak(_, _)
coveredFieldCountWithoutBreak(index, queryFieldSet) ==
  IF index = <<>> THEN 0
  ELSE (IF FirstSegment(Head(index)) \in queryFieldSet THEN 1 ELSE 0)
         + coveredFieldCountWithoutBreak(Tail(index), queryFieldSet)

\* The inner loop: the number of leading fields of the index whose first
\* segment is a query field.
RECURSIVE coveredFieldCount(_, _)
coveredFieldCount(index, queryFieldSet) ==
  IF index = <<>> THEN 0
  ELSE LET indexFieldPrefix == FirstSegment(Head(index))
       IN  IF indexFieldPrefix \in queryFieldSet
             THEN 1 + coveredFieldCount(Tail(index), queryFieldSet)
             ELSE 0

\* The comparison with > in place of >=.
CoverageAbove(covered, total, minCoverage) ==
  /\ total # 0
  /\ covered * minCoverage[2] > minCoverage[1] * total

\* coveredFieldCount / totalFieldCount >= minCoverage, in floating point:
\* 0 / 0 is NaN, which compares false with everything.
CoverageAtLeast(covered, total, minCoverage) ==
  /\ total # 0
  /\ covered * minCoverage[2] >= minCoverage[1] * total

RECURSIVE isCoveredByIndex(_, _, _)
isCoveredByIndex(queryFields, indices, minCoverage) ==
  LET totalFieldCount == Len(queryFields)
      queryFieldSet == Range(queryFields)
  IN  IF indices = <<>> THEN FALSE
      ELSE IF CoverageAtLeast(coveredFieldCount(Head(indices), queryFieldSet),
                              totalFieldCount, minCoverage)
        THEN TRUE
      ELSE isCoveredByIndex(queryFields, Tail(indices), minCoverage)

\* crypto.createHash('sha1').update(s).digest('base64'), on the strings the
\* model can join from its query fields.
sha1Base64(s) ==
  CASE s = <<"a">> ->
         <<"h", "v", "f", "k", "N", "/", "q", "l", "p", "/", "z", "h", "X", "R",
           "3", "c", "u", "e", "r", "q", "6", "j", "d", "2", "Z", "7", "g", "=">>
    [] s = <<"b">> ->
         <<"6", "d", "c", "f", "X", "u", "f", "J", "L", "W", "3", "J", "6", "S",
           "/", "9", "r", "R", "e", "4", "v", "U", "l", "B", "j", "5", "g", "=">>
    [] s = <<"a", "b">> ->
         <<"2", "i", "N", "h", "T", "g", "J", "G", "m", "g", "1", "8", "e", "9",
           "G", "9", "q", "1", "y", "c", "R", "0", "s", "Z", "B", "N", "w", "=">>
    [] s = <<"a", "a", "b">> ->
         <<"Q", "L", "k", "E", "/", "Y", "h", "S", "K", "X", "2", "u", "r", "r",
           "Q", "m", "s", "b", "y", "k", "b", "9", "J", "F", "S", "q", "M", "=">>
    [] s = <<"a", "b", "b">> ->
         <<"x", "k", "0", "/", "z", "e", "I", "M", "X", "N", "A", "x", "Q", "h",
           "c", "e", "W", "s", "R", "6", "h", "6", "o", "8", "i", "s", "4", "=">>
    [] s = <<"a", "a", "b", "b">> ->
         <<"K", "M", "x", "f", "1", "z", "a", "u", "4", "J", "O", "e", "3", "j",
           "M", "w", "w", "o", "Z", "7", "M", "e", "g", "t", "l", "l", "Y", "=">>

\* String.prototype.slice(-n)
SliceLast(s, n) == IF Len(s) <= n THEN s ELSE SubSeq(s, Len(s) - n + 1, Len(s))

\* SafeQuery.hash
hash(queryFields) ==
  LET sortedFields == sortBy(queryFields)
  IN  sha1Base64(join(sortedFields))

\* const hash = SafeQuery.hash(queryFields).slice(-5)
ThrottleKey(queryFields) == SliceLast(hash(queryFields), 5)

----------------------------------------------------------------------------
(* Options (src/src/types.ts) *)

Undefined == "undefined"

Null == "null"

\* JavaScript truthiness of a callback-valued option.
Truthy(v) == v \notin {Undefined, Null}

\* Zero-argument predicates: the two constant ones and one that reads the
\* environment, like README's () => process.env.NODE_ENV !== 'production'.
ConstTrue == "() => true"

ConstFalse == "() => false"

EnvPredicate == "() => env"

\* The value fn() has when the environment flag is e.
CallPredicate(fn, e) ==
  CASE fn = ConstTrue -> TRUE
    [] fn = ConstFalse -> FALSE
    [] fn = EnvPredicate -> e

DEFAULT_OPTIONS ==
  [shouldWarn  |-> ConstTrue,
   shouldThrow |-> ConstFalse,
   checkField  |-> [warnAction   |-> "defaultFieldWarningHandler",
                    throwMessage |-> Undefined],
   checkIndex  |-> [minCoverage  |-> Fraction(1, 2),
                    warnAction   |-> "defaultIndexWarningHandler",
                    throwMessage |-> Undefined]]

\* An assignment in place of the merge: the given handler as it is.
DefaultsNotMerged(object, source) == object

\* _.defaults(object, source) on handler objects: a property of object that
\* is undefined takes the source's value.
Defaults(object, source) ==
  [k \in DOMAIN source |->
     IF k = "minCoverage"
       THEN IF object[k] = UndefinedNumber THEN source[k] ELSE object[k]
       ELSE IF object[k] = Undefined THEN source[k] ELSE object[k]]

\* _.defaultsDeep({}, options, DEFAULT_OPTIONS)
DefaultsDeep(options, defaults) ==
  [shouldWarn  |-> IF options.shouldWarn = Undefined
                     THEN defaults.shouldWarn ELSE options.shouldWarn,
   shouldThrow |-> IF options.shouldThrow = Undefined
                     THEN defaults.shouldThrow ELSE options.shouldThrow,
   checkField  |-> Defaults(options.checkField, defaults.checkField),
   checkIndex  |-> Defaults(options.checkIndex, defaults.checkIndex)]

\* A SafeQueryOptions argument in which nothing is given.
NoOptions ==
  [shouldWarn  |-> Undefined,
   shouldThrow |-> Undefined,
   checkField  |-> [warnAction |-> Undefined, throwMessage |-> Undefined],
   checkIndex  |-> [minCoverage  |-> UndefinedNumber,
                    warnAction   |-> Undefined,
                    throwMessage |-> Undefined]]

----------------------------------------------------------------------------
(* The schema source: what mongoose reports for each model. *)

ModelNames == {"project", "task"}

\* Object.keys(schema.tree)
SchemaTree(modelName) ==
  CASE modelName = "project" -> <<k_a, k_id>>
    [] modelName = "task"    -> <<k_b, k_ab, k_id>>

\* schema.indexes() mapped to Object.keys(a[0])
SchemaIndexKeys(modelName) ==
  CASE modelName = "project" -> << <<k_a>> >>
    [] modelName = "task"    -> << <<k_b_a, k_a>> >>

----------------------------------------------------------------------------
(* State *)

VARIABLES
  options,             \* this.options
  modelMetadataMap,    \* this.modelMetadataMap
  warnedFieldQueries,  \* this.warnedFieldQueries
  warnedIndexQueries,  \* this.warnedIndexQueries
  env,                 \* the environment flag that EnvPredicate reads
  pc,                  \* "idle", "called" (extractor entered) or "returned"
  query,               \* the last query given to the hook
  queryFields,         \* the fields extracted from it
  nextCalls,           \* the arguments of the calls of next() it made, in order
  warnCalls,           \* the warnAction calls it made, in order
  notified,            \* per check and field set: the warnAction calls since
                       \* the last clear of that check's set (live), or that
                       \* there were some before it
  nQueries,            \* queries handled so far
  nSetterCalls,        \* setter calls so far
  lastCall,            \* the last setter call: its name and its argument
  schemaReads,         \* per model name: how often its schema has been read
  coverageCall,        \* the indices and minCoverage isCoveredByIndex is
                       \* called with on its own, with queryFields
  isCovered,           \* what that call returned
  callers,             \* per caller of the hook with one same query: where
                       \* its invocation of checkQueryFn stands
  heap,                \* the handler objects of a program with several
                       \* SafeQuery instances, by identity: their properties
  held,                \* per instance and check: the object that its
                       \* options.checkField or options.checkIndex refers to
  defined              \* per check: the handler object as the program wrote it

vars == <<options, modelMetadataMap, warnedFieldQueries, warnedIndexQueries,
          env, pc, query, queryFields, nextCalls, warnCalls, notified,
          nQueries, nSetterCalls, lastCall, schemaReads, coverageCall,
          isCovered, callers, heap, held, defined>>

engine == <<options, modelMetadataMap, warnedFieldQueries, warnedIndexQueries>>

observed == <<pc, query, queryFields, nextCalls, warnCalls>>

coverage == <<coverageCall, isCovered>>

sharing == <<heap, held, defined>>

----------------------------------------------------------------------------
(* Values passed to callbacks and to next() *)

\* The record made without the comment of the query options.
ViolatingQueryWithoutComment(modelMetadata, violatingFields, queryOptions, queryConditions) ==
  [modelName       |-> modelMetadata.modelName,
   violatingFields |-> violatingFields,
   comment         |-> Undefined,
   fullQuery       |-> queryConditions]

ViolatingQuery(modelMetadata, violatingFields, queryOptions, queryConditions) ==
  [modelName       |-> modelMetadata.modelName,
   violatingFields |-> violatingFields,
   comment         |-> queryOptions.comment,
   fullQuery       |-> queryConditions]

NoViolatingQuery ==
  [modelName |-> "", violatingFields |-> <<>>, comment |-> Undefined,
   fullQuery |-> <<>>]

\* The string that callback fn returns on violatingQuery.
Returned(fn, violatingQuery) == [fn |-> fn, arg |-> violatingQuery]

\* next()
NoError == [name |-> "none", message |-> Returned(Undefined, NoViolatingQuery)]

\* next(new InvalidField(message)), next(new LowIndexCoverage(message))
Failure(name, message) == [name |-> name, message |-> message]

WarnCall(check, fn, violatingQuery) ==
  [check |-> check, fn |-> fn, arg |-> violatingQuery]

\* What one check did: its calls of next, its warnAction calls and the
\* throttle set it leaves.
Outcome(next, warn, warned) == [next |-> next, warn |-> warn, warned |-> warned]

----------------------------------------------------------------------------
(* SafeQuery.getMetadata *)

\* The metadata with the declared indexes alone, no ['_id'] added.
NewMetadataOfDeclaredIndexes(modelName) ==
  [modelName |-> modelName,
   fields    |-> Range(SchemaTree(modelName)),
   indices   |-> SchemaIndexKeys(modelName)]

NewMetadata(modelName) ==
  [modelName |-> modelName,
   fields    |-> Range(SchemaTree(modelName)),
   indices   |-> SchemaIndexKeys(modelName) \o << <<k_id>> >>]

\* The map after getMetadata(model).
MetadataMapAfter(map, modelName) ==
  IF modelName \in DOMAIN map THEN map
  ELSE [m \in DOMAIN map \cup {modelName} |->
          IF m = modelName THEN NewMetadata(modelName) ELSE map[m]]

getMetadata(map, modelName) == MetadataMapAfter(map, modelName)[modelName]

----------------------------------------------------------------------------
(* SafeQuery.checkField, SafeQuery.checkIndex *)

shouldThrow(opts, e) == CallPredicate(opts.shouldThrow, e)

shouldWarn(opts, e) == CallPredicate(opts.shouldWarn, e)

\* The throw branch taken without looking for a throwMessage callback.
ThrowBranchWithoutMessage(opts, e, handler) == shouldThrow(opts, e)

\* The throw branch taken only when the warn branch would not be.
ThrowBranchUnlessWarn(opts, e, handler) ==
  /\ shouldThrow(opts, e) /\ Truthy(handler.throwMessage)
  /\ ~(shouldWarn(opts, e) /\ Truthy(handler.warnAction))

\* this.options.shouldThrow() && handler.throwMessage
ThrowBranch(opts, e, handler) ==
  shouldThrow(opts, e) /\ Truthy(handler.throwMessage)

\* The warn branch taken without asking shouldWarn().
WarnBranchWithoutCondition(opts, e, handler) == Truthy(handler.warnAction)

\* this.options.shouldWarn() && handler.warnAction
WarnBranch(opts, e, handler) ==
  shouldWarn(opts, e) /\ Truthy(handler.warnAction)

\* A query taken as new only while nothing at all has been warned about.
IsNewQueryOfEmptySet(warned, hashKey) == warned = {}

\* const newQuery = !this.warnedFieldQueries.has(hash)
IsNewQuery(warned, hashKey) == hashKey \notin warned

\* The add forgotten.
AddWarnedNothing(warned, hashKey) == warned

\* this.warnedFieldQueries.add(hash)
AddWarned(warned, hashKey) == warned \cup {hashKey}

\* The digest taken of the violating fields only.
FieldThrottleKeyOfViolatingFields(fields, violatingFields) ==
  ThrottleKey(violatingFields)

\* SafeQuery.hash(queryFields).slice(-5) in checkField: the digest is taken
\* of all the query fields.
FieldThrottleKey(fields, violatingFields) == ThrottleKey(fields)

\* A field check that finds nothing.
checkFieldFindingNothing(opts, e, warned, modelMetadata, queryConditions, fields, queryOptions) ==
  Outcome(<<>>, <<>>, warned)

checkField(opts, e, warned, modelMetadata, queryConditions, fields, queryOptions) ==
  LET violatingFields == getNonExistingFields(fields, modelMetadata.fields)
      violatingQuery ==
        ViolatingQuery(modelMetadata, violatingFields, queryOptions,
                       queryConditions)
  IN  IF Len(violatingFields) = 0 THEN Outcome(<<>>, <<>>, warned)
      ELSE IF ThrowBranch(opts, e, opts.checkField)
        THEN LET message ==
                   Returned(opts.checkField.throwMessage, violatingQuery)
             IN  Outcome(<<Failure("InvalidField", message)>>, <<>>, warned)
      ELSE IF WarnBranch(opts, e, opts.checkField)
        THEN LET hashKey == FieldThrottleKey(fields, violatingFields)
                 newQuery == IsNewQuery(warned, hashKey)
             IN  IF newQuery
                   THEN Outcome(<<>>,
                                <<WarnCall("field", opts.checkField.warnAction,
                                           violatingQuery)>>,
                                AddWarned(warned, hashKey))
                   ELSE Outcome(<<>>, <<>>, warned)
      ELSE Outcome(<<>>, <<>>, warned)

\* The magnitude of minCoverage taken, in place of the larger of it and 0.
MinCoverageMagnitude(minCoverage) ==
  IF minCoverage[1] < 0 THEN Fraction(-minCoverage[1], minCoverage[2])
  ELSE minCoverage

\* Math.max(this.options.checkIndex.minCoverage || 0, 0)
ClampedMinCoverage(minCoverage) ==
  IF minCoverage[2] = 0 \/ minCoverage[1] <= 0 THEN Fraction(0, 1)
  ELSE minCoverage

checkIndex(opts, e, warned, modelMetadata, queryConditions, fields, queryOptions) ==
  IF Len(modelMetadata.indices) = 0 \/ Len(fields) = 0
    THEN Outcome(<<>>, <<>>, warned)
  ELSE
    LET minCoverage == ClampedMinCoverage(opts.checkIndex.minCoverage)
        violatingQuery ==
          ViolatingQuery(modelMetadata, fields, queryOptions, queryConditions)
    IN  IF isCoveredByIndex(fields, modelMetadata.indices, minCoverage)
          THEN Outcome(<<>>, <<>>, warned)
        ELSE IF ThrowBranch(opts, e, opts.checkIndex)
          THEN LET message ==
                     Returned(opts.checkIndex.throwMessage, violatingQuery)
               IN  Outcome(<<Failure("LowIndexCoverage", message)>>, <<>>, warned)
        ELSE IF WarnBranch(opts, e, opts.checkIndex)
          THEN LET hashKey == ThrottleKey(fields)
                   newQuery == IsNewQuery(warned, hashKey)
               IN  IF newQuery
                     THEN Outcome(<<>>,
                                  <<WarnCall("index", opts.checkIndex.warnAction,
                                             violatingQuery)>>,
                                  AddWarned(warned, hashKey))
                     ELSE Outcome(<<>>, <<>>, warned)
        ELSE Outcome(<<>>, <<>>, warned)

----------------------------------------------------------------------------
(* Inputs *)

\* The keys of the filters sent through the hook.
QueryKeys == {k_a, k_b, k_ab}

\* this._conditions: a filter, or nothing.
Conditions(entries) == [isObject |-> TRUE, entries |-> entries]

NoConditions == [isObject |-> FALSE, entries |-> <<>>]

\* Filters of at most n scalar-valued keys.
FlatFilters(ks, n) ==
  {f \in Filters(ks, n) : \A i \in 1..Len(f) : ~f[i].value.isArray}

QueryConditions ==
  {NoConditions} \cup {Conditions(f) : f \in FlatFilters(QueryKeys, MaxQueryKeys)}

\* this.options of the query: only comment is read.
NoComment == [comment |-> Undefined]

QueryOptions == {NoComment, [comment |-> "hint"]}

NoQuery ==
  [modelName |-> "", conditions |-> NoConditions,
   options |-> NoComment]

\* Arguments of setWarnCondition and setThrowCondition: a boolean or a
\* predicate.
BooleanArg(b) == [isBoolean |-> TRUE, boolean |-> b, fn |-> Undefined]

FunctionArg(fn) == [isBoolean |-> FALSE, boolean |-> FALSE, fn |-> fn]

ConditionArgs ==
  {BooleanArg(b) : b \in BOOLEAN} \cup {FunctionArg(EnvPredicate)}

\* Arguments of setFieldCheckHandler: Partial<FieldCheckHandler>.
FieldHandlerArgs ==
  [warnAction   : {Undefined, Null, "userFieldWarn"},
   throwMessage : {Undefined, "userFieldMessage"}]

\* Arguments of setIndexCheckHandler: Partial<IndexCheckHandler>.
IndexHandlerArgs ==
  [minCoverage  : {UndefinedNumber, Fraction(11, 20), Fraction(-1, 4),
                   Fraction(0, 1)},
   warnAction   : {Undefined, Null, "userIndexWarn"},
   throwMessage : {Undefined, "userIndexMessage"}]

----------------------------------------------------------------------------
(* Operations *)

\* The live record of (check, fields), if any.
Live(n, check) == {r \in n : r.check = check /\ r.live}

Count(n, check, fields) ==
  IF \E r \in Live(n, check) : r.fields = fields
    THEN (CHOOSE r \in Live(n, check) : r.fields = fields).count
    ELSE 0

\* One more warnAction call of check, made for the query fields.
Counted(n, check, fields) ==
  LET old == {r \in Live(n, check) : r.fields = Range(fields)}
  IN  (n \ old) \cup
        {[check |-> check, fields |-> Range(fields), live |-> TRUE,
          order |-> IF old = {} THEN fields ELSE (CHOOSE r \in old : TRUE).order,
          count |-> Count(n, check, Range(fields)) + 1]}

\* The records after a clear of check's set.
Archived(n, check) ==
  {r \in n : r.check # check} \cup
    {[check |-> check, fields |-> r.fields, live |-> FALSE, order |-> <<>>,
      count |-> 0] : r \in {x \in n : x.check = check}}

\* The callers of the hook, none of which has called it.
Callers == 1..MaxCallers

NoCallers == [c \in Callers |-> "idle"]

\* One SafeQuery instance, and no handler object kept by the program.
NothingShared ==
  /\ heap = <<>>
  /\ held = <<>>
  /\ defined = <<>>

\* No setter has been called.
NoCall == [op |-> "none", arg |-> Undefined]

SetterCall(op, arg) == [op |-> op, arg |-> arg]

\* isCoveredByIndex has not been called on its own.
NoCoverageCall == [indices |-> <<>>, minCoverage |-> UndefinedNumber]

\* The reads of model schemas after getMetadata(model): a model that has no
\* entry in the map has its schema read.
SchemaReadsOnEveryCall(reads, map, modelName) ==
  [reads EXCEPT ![modelName] = @ + 1]

SchemaReadsAfter(reads, map, modelName) ==
  IF modelName \in DOMAIN map THEN reads
  ELSE [reads EXCEPT ![modelName] = @ + 1]

\* new SafeQuery(options)
Constructed(opts) ==
  /\ modelMetadataMap = <<>>
  /\ warnedFieldQueries = {}
  /\ warnedIndexQueries = {}
  /\ options = DefaultsDeep(opts, DEFAULT_OPTIONS)

\* What has been observed when no query has been handled.
NothingObserved ==
  /\ pc = "idle"
  /\ query = NoQuery
  /\ queryFields = <<>>
  /\ nextCalls = <<>>
  /\ warnCalls = <<>>
  /\ notified = {}
  /\ nQueries = 0
  /\ nSetterCalls = 0
  /\ lastCall = NoCall
  /\ schemaReads = [m \in ModelNames |-> 0]
  /\ coverageCall = NoCoverageCall
  /\ isCovered = FALSE
  /\ callers = NoCallers
  /\ NothingShared

\* new SafeQuery()
Init ==
  /\ Constructed(NoOptions)
  /\ env = FALSE
  /\ NothingObserved

\* The options a SafeQuery is constructed with.
ConstructorOptions ==
  [shouldWarn  : {Undefined, ConstFalse, EnvPredicate},
   shouldThrow : {Undefined, ConstTrue, EnvPredicate},
   checkField  : FieldHandlerArgs,
   checkIndex  : IndexHandlerArgs]

\* new SafeQuery(options), in any environment.
InitPolicy ==
  /\ \E opts \in ConstructorOptions : Constructed(opts)
  /\ env \in BOOLEAN
  /\ NothingObserved

\* Options that give no throwMessage, so that every violation is handled by
\* the warn branch.
WarnPathOptions ==
  {opts \in ConstructorOptions :
     /\ opts.shouldWarn # EnvPredicate
     /\ opts.shouldThrow # EnvPredicate
     /\ opts.checkField.throwMessage = Undefined
     /\ opts.checkField.warnAction # "userFieldWarn"
     /\ opts.checkIndex.throwMessage = Undefined
     /\ opts.checkIndex.warnAction # "userIndexWarn"
     /\ opts.checkIndex.minCoverage = UndefinedNumber}

\* new SafeQuery(options) without throwMessage callbacks.
InitWarn ==
  /\ \E opts \in WarnPathOptions : Constructed(opts)
  /\ env = FALSE
  /\ NothingObserved

\* The extractor entered with a filter.
InitExtract ==
  /\ Constructed(NoOptions)
  /\ env = FALSE
  /\ pc = "called"
  /\ \E w \in 0..MaxWeight :
       \/ /\ w = 0
          /\ query = [modelName |-> "project", conditions |-> Conditions(<<>>),
                      options |-> NoComment]
       \/ \E n \in 1..w :
            \E e \in EntriesOfWeight(ExtractKeys, n),
               rest \in FiltersOfWeight(ExtractKeys, w - n) :
              /\ e.key \notin Keys(rest)
              /\ query = [modelName |-> "project",
                          conditions |-> Conditions(<<e>> \o rest),
                          options |-> NoComment]
  /\ queryFields = <<>>
  /\ nextCalls = <<>>
  /\ warnCalls = <<>>
  /\ notified = {}
  /\ nQueries = 0
  /\ nSetterCalls = 0
  /\ lastCall = NoCall
  /\ schemaReads = [m \in ModelNames |-> 0]
  /\ coverageCall = NoCoverageCall
  /\ isCovered = FALSE
  /\ callers = NoCallers
  /\ NothingShared

\* The hook going on to the checks whatever the number of fields.
NoQueryFieldsNeverHeld(fields) == FALSE

\* queryFields.length === 0
NoQueryFields(fields) == Len(fields) = 0

\* The index check left out once the field check has passed a failure on.
AfterFieldCheckUnlessFailed(field, index, warned) ==
  IF field.next # <<>> THEN Outcome(<<>>, <<>>, warned) ELSE index

\* The hook calls checkIndex after checkField, whatever checkField did.
AfterFieldCheck(field, index, warned) == index

\* The body of the hook from the extracted fields on: what it stores, which
\* callbacks it calls, and its calls of next.
Hooked(modelName, queryConditions, queryOptions, fields, field, index) ==
  /\ pc' = "returned"
  /\ query' = [modelName |-> modelName, conditions |-> queryConditions,
               options |-> queryOptions]
  /\ IF ~queryConditions.isObject
       THEN /\ queryFields' = <<>>
            /\ nextCalls' = <<NoError>>
            /\ warnCalls' = <<>>
            /\ UNCHANGED <<modelMetadataMap, warnedFieldQueries,
                           warnedIndexQueries, notified, schemaReads>>
     ELSE IF NoQueryFields(fields)
       THEN /\ queryFields' = fields
            /\ nextCalls' = <<NoError>>
            /\ warnCalls' = <<>>
            /\ UNCHANGED <<modelMetadataMap, warnedFieldQueries,
                           warnedIndexQueries, notified, schemaReads>>
     ELSE /\ queryFields' = fields
          /\ modelMetadataMap' = MetadataMapAfter(modelMetadataMap, modelName)
          /\ schemaReads' =
               SchemaReadsAfter(schemaReads, modelMetadataMap, modelName)
          /\ warnedFieldQueries' = field.warned
          /\ warnedIndexQueries' = index.warned
          /\ nextCalls' = field.next \o index.next \o <<NoError>>
          /\ warnCalls' = field.warn \o index.warn
          /\ notified' =
               LET n1 == IF field.warn # <<>>
                           THEN Counted(notified, "field", fields)
                           ELSE notified
               IN  IF index.warn # <<>>
                     THEN Counted(n1, "index", fields)
                     ELSE n1
  /\ UNCHANGED <<options, env, lastCall, coverage, callers, sharing>>

\* The two checks of the hook on the extracted fields.
Checked(modelName, queryConditions, queryOptions, fields, metadata) ==
  Hooked(modelName, queryConditions, queryOptions, fields,
         checkField(options, env, warnedFieldQueries, metadata,
                    queryConditions.entries, fields, queryOptions),
         AfterFieldCheck(
           checkField(options, env, warnedFieldQueries, metadata,
                      queryConditions.entries, fields, queryOptions),
           checkIndex(options, env, warnedIndexQueries, metadata,
                      queryConditions.entries, fields, queryOptions),
           warnedIndexQueries))

\* checkQueryFn, the pre hook of every query middleware.
checkQueryFn(modelName, queryConditions, queryOptions) ==
  Checked(modelName, queryConditions, queryOptions,
          getRootQueryFields(queryConditions.entries),
          getMetadata(modelMetadataMap, modelName))

\* A query with one of the offered options goes through the hook.
Query(offered) ==
  /\ nQueries < MaxQueries
  /\ nQueries' = nQueries + 1
  /\ \E modelName \in ModelNames, queryConditions \in QueryConditions,
        queryOptions \in offered :
       checkQueryFn(modelName, queryConditions, queryOptions)
  /\ UNCHANGED nSetterCalls

\* A setter that also starts the throttle sets afresh.
SetterClearingSets ==
  /\ nSetterCalls < MaxSetterCalls
  /\ nSetterCalls' = nSetterCalls + 1
  /\ warnedFieldQueries' = {}
  /\ warnedIndexQueries' = {}
  /\ UNCHANGED <<modelMetadataMap, env, observed, notified, nQueries,
                 schemaReads, coverage, callers, sharing>>

Setter ==
  /\ nSetterCalls < MaxSetterCalls
  /\ nSetterCalls' = nSetterCalls + 1
  /\ UNCHANGED <<modelMetadataMap, warnedFieldQueries, warnedIndexQueries,
                 env, observed, notified, nQueries, schemaReads, coverage, callers, sharing>>

\* The boolean argument not looked at: a constant true stored for it.
AsPredicateIgnoringBoolean(condition) ==
  IF condition.isBoolean THEN ConstTrue ELSE condition.fn

\* The function stored for a boolean or predicate argument.
AsPredicate(condition) ==
  IF condition.isBoolean
    THEN IF condition.boolean THEN ConstTrue ELSE ConstFalse
    ELSE condition.fn

setWarnCondition ==
  /\ Setter
  /\ \E warnCondition \in ConditionArgs :
       /\ options' = [options EXCEPT !.shouldWarn = AsPredicate(warnCondition)]
       /\ lastCall' = SetterCall("setWarnCondition", warnCondition)

setThrowCondition ==
  /\ Setter
  /\ \E throwCondition \in ConditionArgs :
       /\ options' = [options EXCEPT !.shouldThrow = AsPredicate(throwCondition)]
       /\ lastCall' = SetterCall("setThrowCondition", throwCondition)

setFieldCheckHandler ==
  /\ Setter
  /\ \E fieldCheckHandler \in FieldHandlerArgs :
       /\ options' = [options EXCEPT
                        !.checkField =
                          Defaults(fieldCheckHandler, options.checkField)]
       /\ lastCall' = SetterCall("setFieldCheckHandler", fieldCheckHandler)

setIndexCheckHandler ==
  /\ Setter
  /\ \E indexCheckHandler \in IndexHandlerArgs :
       /\ options' = [options EXCEPT
                        !.checkIndex =
                          Defaults(indexCheckHandler, options.checkIndex)]
       /\ lastCall' = SetterCall("setIndexCheckHandler", indexCheckHandler)

\* A clear that leaves the field set as it is.
clearWarnedFieldQueriesKeepingSet ==
  /\ warnedFieldQueries' = warnedFieldQueries
  /\ notified' = Archived(notified, "field")
  /\ UNCHANGED <<options, modelMetadataMap, warnedIndexQueries, env, observed,
                 nQueries, nSetterCalls, lastCall, schemaReads, coverage, callers, sharing>>

\* this.warnedFieldQueries = new Set<string>()
clearWarnedFieldQueries ==
  /\ warnedFieldQueries' = {}
  /\ notified' = Archived(notified, "field")
  /\ UNCHANGED <<options, modelMetadataMap, warnedIndexQueries, env, observed,
                 nQueries, nSetterCalls, lastCall, schemaReads, coverage, callers, sharing>>

\* A clear of the index set that empties the field set with it.
clearWarnedIndexQueriesAndFieldQueries ==
  /\ warnedIndexQueries' = {}
  /\ warnedFieldQueries' = {}
  /\ notified' = Archived(notified, "index")
  /\ UNCHANGED <<options, modelMetadataMap, env, observed, nQueries,
                 nSetterCalls, lastCall, schemaReads, coverage, callers, sharing>>

\* this.warnedIndexQueries = new Set<string>()
clearWarnedIndexQueries ==
  /\ warnedIndexQueries' = {}
  /\ notified' = Archived(notified, "index")
  /\ UNCHANGED <<options, modelMetadataMap, warnedFieldQueries, env, observed,
                 nQueries, nSetterCalls, lastCall, schemaReads, coverage, callers, sharing>>

\* The environment changes under the program; it is followed only while a
\* stored predicate reads it.
EnvChange ==
  /\ EnvPredicate \in {options.shouldWarn, options.shouldThrow}
  /\ env' = ~env
  /\ UNCHANGED <<engine, observed, notified, nQueries, nSetterCalls, lastCall,
                 schemaReads, coverage, callers, sharing>>

Next ==
  \/ Query({NoComment})
  \/ setWarnCondition
  \/ setThrowCondition
  \/ setFieldCheckHandler
  \/ setIndexCheckHandler
  \/ clearWarnedFieldQueries
  \/ clearWarnedIndexQueries
  \/ EnvChange

Spec == Init /\ [][Next]_vars

\* Queries and clears, without reconfiguration.
NextWarn ==
  \/ Query({NoComment})
  \/ clearWarnedFieldQueries
  \/ clearWarnedIndexQueries

SpecWarn == InitWarn /\ [][NextWarn]_vars

\* One query through the hook of a freshly constructed SafeQuery.
QueryOnce == nQueries = 0 /\ Query(QueryOptions)

NextPolicy == QueryOnce

SpecPolicy == InitPolicy /\ [][NextPolicy]_vars

\* Options that give a throwMessage callback to both checks.
ThrowReadyOptions ==
  [NoOptions EXCEPT !.checkField.throwMessage = "userFieldMessage",
                    !.checkIndex.throwMessage = "userIndexMessage"]

\* new SafeQuery() or new SafeQuery(options) with throwMessage callbacks.
InitConfig ==
  /\ \E opts \in {NoOptions, ThrowReadyOptions} : Constructed(opts)
  /\ env = FALSE
  /\ NothingObserved

\* Reconfiguration around one query.
NextConfig ==
  \/ setWarnCondition
  \/ setThrowCondition
  \/ setFieldCheckHandler
  \/ setIndexCheckHandler
  \/ EnvChange
  \/ nQueries = 0 /\ Query({NoComment})

SpecConfig == InitConfig /\ [][NextConfig]_vars

\* Queries, clears and reconfiguration of a SafeQuery constructed with or
\* without throwMessage callbacks.
\* new SafeQuery(options) with throwMessage callbacks.
InitThrottle ==
  /\ Constructed(ThrowReadyOptions)
  /\ env = FALSE
  /\ NothingObserved

\* this._conditions of queries on the fields a and b.
ThrottleConditions ==
  {Conditions(f) : f \in FlatFilters({k_a, k_b}, MaxQueryKeys)}

\* A query on a, on b or on both goes through the hook.
QueryOnTwoFields ==
  /\ nQueries < MaxQueries
  /\ nQueries' = nQueries + 1
  /\ \E modelName \in ModelNames, queryConditions \in ThrottleConditions :
       checkQueryFn(modelName, queryConditions, NoComment)
  /\ UNCHANGED nSetterCalls

NextThrottle ==
  \/ QueryOnTwoFields
  \/ setWarnCondition
  \/ setThrowCondition
  \/ clearWarnedFieldQueries
  \/ clearWarnedIndexQueries

SpecThrottle == InitThrottle /\ [][NextThrottle]_vars

\* The keys that give no field: the ignored key and root operators.
SkippedKeys == {k_bsontype, k_text, k_or}

\* this._conditions of the queries that may give no field: nothing, a filter
\* of keys that give no field, or a filter of keys that give fields.
SkipConditions ==
  QueryConditions \cup
    {Conditions(f) : f \in FlatFilters(SkippedKeys, MaxQueryKeys)}

\* A query on fields or on none goes through the hook.
QueryOrSkip ==
  /\ nQueries < MaxQueries
  /\ nQueries' = nQueries + 1
  /\ \E modelName \in ModelNames, queryConditions \in SkipConditions :
       checkQueryFn(modelName, queryConditions, NoComment)
  /\ UNCHANGED nSetterCalls

NextSkip == QueryOrSkip

SpecSkip == Init /\ [][NextSkip]_vars

\* SafeQuery.getRootQueryFields(queryConditions) returns.
Extract ==
  /\ pc = "called"
  /\ pc' = "returned"
  /\ queryFields' = getRootQueryFields(query.conditions.entries)
  /\ UNCHANGED <<engine, env, query, nextCalls, warnCalls, notified, nQueries,
                 nSetterCalls, lastCall, schemaReads, coverage, callers, sharing>>

NextExtract == Extract

SpecExtract == InitExtract /\ [][NextExtract]_vars

----------------------------------------------------------------------------
(* SafeQuery.isCoveredByIndex called on its own, as the tests call it. *)

\* The sequences over S of length m to n.
SeqsOfLength(S, m, n) == UNION {[1..k -> S] : k \in m..n}

\* Field lists, with repetitions and the empty one.
CoverageFieldLists == SeqsOfLength({k_a, k_b}, 0, MaxFieldCount)

\* The field lists of an index: Object.keys of its key pattern, so without
\* repetition, over plain and dotted index fields.
CoverageIndexes ==
  {index \in SeqsOfLength({k_a, k_b_a, k_b_x}, 1, MaxIndexFields) :
     NoDuplicates(index)}

\* Index lists, the empty one included.
CoverageIndexLists == SeqsOfLength(CoverageIndexes, 0, MaxIndexes)

CoverageMinima ==
  {Fraction(0, 1), Fraction(1, 2), Fraction(11, 20), Fraction(1, 1)}

\* isCoveredByIndex entered with its three arguments.
InitCoverage ==
  /\ Constructed(NoOptions)
  /\ env = FALSE
  /\ pc = "called"
  /\ query = NoQuery
  /\ queryFields \in CoverageFieldLists
  /\ coverageCall \in [indices : CoverageIndexLists, minCoverage : CoverageMinima]
  /\ isCovered = FALSE
  /\ callers = NoCallers
  /\ NothingShared
  /\ nextCalls = <<>>
  /\ warnCalls = <<>>
  /\ notified = {}
  /\ nQueries = 0
  /\ nSetterCalls = 0
  /\ lastCall = NoCall
  /\ schemaReads = [m \in ModelNames |-> 0]

\* SafeQuery.isCoveredByIndex(queryFields, indices, minCoverage) returns.
Cover ==
  /\ pc = "called"
  /\ pc' = "returned"
  /\ isCovered' = isCoveredByIndex(queryFields, coverageCall.indices,
                                   coverageCall.minCoverage)
  /\ UNCHANGED <<engine, env, query, queryFields, nextCalls, warnCalls,
                 notified, nQueries, nSetterCalls, lastCall, schemaReads,
                 coverageCall, callers, sharing>>

NextCoverage == Cover

SpecCoverage == InitCoverage /\ [][NextCoverage]_vars

----------------------------------------------------------------------------
(* What the last query did, read against the schema source. *)

\* The calls of next that carry a failure of the given kind.
Failures(name) == {i \in 1..Len(nextCalls) : nextCalls[i].name = name}

\* The warnAction calls of the given check.
Notifications(check) == {i \in 1..Len(warnCalls) : warnCalls[i].check = check}

\* A query has just gone through the hook.
QueryStep == nQueries' = nQueries + 1

\* The extracted fields of the query that the schema of its collection does
\* not declare, in extraction order.
AbsentFields ==
  LET declared == SchemaTree(query.modelName)
  IN  SelectSeq(queryFields,
                LAMBDA f : \A i \in 1..Len(declared) : declared[i] # f)

\* The indexes of the query's collection: the declared ones, then _id.
CollectionIndexes == SchemaIndexKeys(query.modelName) \o << <<k_id>> >>

\* The length of the longest leading run of the index's fields whose first
\* segments are all query fields.
PrefixLength(index) ==
  CHOOSE n \in 0..Len(index) :
    /\ \A i \in 1..n : FirstSegment(index[i]) \in Range(queryFields)
    /\ n < Len(index) => FirstSegment(index[n + 1]) \notin Range(queryFields)

\* The configured minCoverage, negative or missing values taken as 0.
ClampedMinimum ==
  LET m == options.checkIndex.minCoverage
  IN  IF m[2] > 0 /\ m[1] > 0 THEN m ELSE Fraction(0, 1)

\* The query has a field, and the prefix coverage of every index is below
\* the clamped minimum.
LowCoverage ==
  /\ Cardinality(Range(queryFields)) >= 1
  /\ \A i \in 1..Len(CollectionIndexes) :
       PrefixLength(CollectionIndexes[i]) * ClampedMinimum[2]
         < ClampedMinimum[1] * Cardinality(Range(queryFields))

\* The argument the callbacks of each check are given for the query.
FieldViolation ==
  [modelName       |-> query.modelName,
   violatingFields |-> AbsentFields,
   comment         |-> query.options.comment,
   fullQuery       |-> query.conditions.entries]

IndexViolation ==
  [modelName       |-> query.modelName,
   violatingFields |-> queryFields,
   comment         |-> query.options.comment,
   fullQuery       |-> query.conditions.entries]

ThrowMode == CallPredicate(options.shouldThrow, env)

WarnMode == CallPredicate(options.shouldWarn, env)

----------------------------------------------------------------------------
(* Properties of one query through the hook (SpecPolicy). *)

\* C1: for every query that goes through the hook, whatever its filter, the
\* configuration and the outcome of the two checks, next is invoked exactly
\* once: once without error or once with a failure, never twice or more.
NextInvokedExactlyOnce == pc = "returned" => Len(nextCalls) = 1

\* C2: an InvalidField failure is signalled for a query if and only if
\* shouldThrow() is true, the field check has a throwMessage callback and
\* some extracted field of the query is absent from the schema of its
\* collection; the failure carries exactly what that callback returned.
InvalidFieldIffThrowable ==
  pc = "returned" =>
    /\ Failures("InvalidField") # {}
         <=> /\ ThrowMode
             /\ Truthy(options.checkField.throwMessage)
             /\ AbsentFields # <<>>
    /\ \A i \in Failures("InvalidField") :
         nextCalls[i].message =
           Returned(options.checkField.throwMessage, FieldViolation)

InvalidFieldSignalled ==
  /\ pc = "returned"
  /\ Failures("InvalidField") # {}
  /\ options.checkField.throwMessage = "userFieldMessage"
  /\ options.shouldThrow = EnvPredicate
  /\ Len(AbsentFields) = 1
  /\ Len(queryFields) = 2

\* C3: a LowIndexCoverage failure is signalled for a query if and only if
\* shouldThrow() is true, the index check has a throwMessage callback, the
\* query has at least one extracted field and the prefix coverage of every
\* index of the collection is below the clamped minCoverage; the failure
\* carries exactly what that callback returned.
LowIndexCoverageIffThrowable ==
  pc = "returned" =>
    /\ Failures("LowIndexCoverage") # {}
         <=> /\ ThrowMode
             /\ Truthy(options.checkIndex.throwMessage)
             /\ LowCoverage
    /\ \A i \in Failures("LowIndexCoverage") :
         nextCalls[i].message =
           Returned(options.checkIndex.throwMessage, IndexViolation)

LowIndexCoverageSignalled ==
  /\ pc = "returned"
  /\ Failures("LowIndexCoverage") # {}
  /\ options.checkIndex.throwMessage = "userIndexMessage"
  /\ options.checkIndex.minCoverage = Fraction(11, 20)
  /\ query.modelName = "task"
  /\ PrefixLength(CollectionIndexes[1]) = 1
  /\ Len(queryFields) = 2

\* C4: for each check, when shouldWarn() and shouldThrow() are both true and
\* the check has both a warnAction and a throwMessage callback, a violation
\* signals only the failure: that check's warnAction is not invoked for the
\* query and nothing is recorded as warned.
ThrowOverWarn ==
  pc = "returned" /\ WarnMode /\ ThrowMode =>
    /\ ( /\ Truthy(options.checkField.warnAction)
         /\ Truthy(options.checkField.throwMessage)
         /\ AbsentFields # <<>> )
         => /\ Failures("InvalidField") # {}
            /\ Notifications("field") = {}
            /\ warnedFieldQueries = {}
    /\ ( /\ Truthy(options.checkIndex.warnAction)
         /\ Truthy(options.checkIndex.throwMessage)
         /\ LowCoverage )
         => /\ Failures("LowIndexCoverage") # {}
            /\ Notifications("index") = {}
            /\ warnedIndexQueries = {}

BothFailuresNoWarning ==
  /\ pc = "returned"
  /\ WarnMode /\ ThrowMode
  /\ options.checkField.warnAction = "userFieldWarn"
  /\ options.checkIndex.warnAction = "defaultIndexWarningHandler"
  /\ Failures("InvalidField") # {}
  /\ Failures("LowIndexCoverage") # {}
  /\ warnCalls = <<>>

\* C9: when for a check neither action is actionable (shouldThrow() false or
\* no throwMessage, and shouldWarn() false or no warnAction), a query that
\* violates it is silently ignored: the check invokes no callback, signals no
\* failure and leaves its throttle set as it was; with no other failure the
\* query proceeds.
NotActionableIgnored ==
  LET fieldIdle == /\ ~(ThrowMode /\ Truthy(options.checkField.throwMessage))
                   /\ ~(WarnMode /\ Truthy(options.checkField.warnAction))
      indexIdle == /\ ~(ThrowMode /\ Truthy(options.checkIndex.throwMessage))
                   /\ ~(WarnMode /\ Truthy(options.checkIndex.warnAction))
  IN  pc = "returned" =>
        /\ fieldIdle /\ AbsentFields # <<>>
             => /\ Failures("InvalidField") = {}
                /\ Notifications("field") = {}
                /\ warnedFieldQueries = {}
        /\ indexIdle /\ LowCoverage
             => /\ Failures("LowIndexCoverage") = {}
                /\ Notifications("index") = {}
                /\ warnedIndexQueries = {}
        /\ fieldIdle /\ indexIdle
             => /\ nextCalls = <<NoError>>
                /\ warnCalls = <<>>

ViolationsIgnored ==
  /\ pc = "returned"
  /\ AbsentFields # <<>>
  /\ LowCoverage
  /\ ThrowMode
  /\ options.checkField.throwMessage = Undefined
  /\ options.checkIndex.throwMessage = Undefined
  /\ WarnMode
  /\ options.checkField.warnAction = Null
  /\ options.checkIndex.warnAction = Null
  /\ nextCalls = <<NoError>>
  /\ warnCalls = <<>>
  /\ warnedFieldQueries = {}
  /\ warnedIndexQueries = {}

\* Both checks are set to fail: shouldThrow() is true and each check has
\* a throwMessage callback.
BothChecksThrow ==
  /\ ThrowMode
  /\ Truthy(options.checkField.throwMessage)
  /\ Truthy(options.checkIndex.throwMessage)

\* The query of the tests' index check, {name, uncoveredField} on a
\* collection with an index on name: here {a, b} on "project", whose schema
\* declares a and not b and has an index on a.
IndexCheckQuery ==
  /\ query.modelName = "project"
  /\ query.conditions.isObject
  /\ Keys(query.conditions.entries) = {k_a, k_b}

InvalidFieldBeforeLowIndexCoverage ==
  pc = "returned" /\ BothChecksThrow /\ AbsentFields # <<>> /\ LowCoverage =>
    /\ nextCalls[1].name = "InvalidField"
    /\ \A i \in Failures("LowIndexCoverage") : i > 1

BothFailuresInOrder ==
  /\ pc = "returned"
  /\ BothChecksThrow
  /\ IndexCheckQuery
  /\ options.checkIndex.minCoverage = Fraction(11, 20)
  /\ nextCalls[1].name = "InvalidField"
  /\ nextCalls[2].name = "LowIndexCoverage"

\* The largest prefix coverage count over the indexes of the collection.
BestPrefixLength ==
  CHOOSE p \in 0..Len(queryFields) + 1 :
    /\ \E i \in 1..Len(CollectionIndexes) :
         PrefixLength(CollectionIndexes[i]) = p
    /\ \A i \in 1..Len(CollectionIndexes) :
         PrefixLength(CollectionIndexes[i]) <= p

\* C16: the threshold is inclusive: for a query with two extracted fields
\* whose best index prefix covers one of them (coverage 0.5), the index
\* check reports nothing when minCoverage <= 0.5, and reports a violation,
\* a failure or a notification according to the policy, when
\* minCoverage > 0.5.
ThresholdInclusive ==
  LET m == options.checkIndex.minCoverage
  IN  /\ pc = "returned"
      /\ Cardinality(Range(queryFields)) = 2
      /\ BestPrefixLength = 1
      => /\ 2 * m[1] <= m[2]
              => /\ Failures("LowIndexCoverage") = {}
                 /\ Notifications("index") = {}
         /\ 2 * m[1] > m[2]
              => /\ ThrowMode /\ Truthy(options.checkIndex.throwMessage)
                      => Failures("LowIndexCoverage") # {}
                 /\ ( /\ ~(ThrowMode /\ Truthy(options.checkIndex.throwMessage))
                      /\ WarnMode /\ Truthy(options.checkIndex.warnAction) )
                      => Notifications("index") # {}

HalfCoveredAboveThreshold ==
  /\ pc = "returned"
  /\ IndexCheckQuery
  /\ BestPrefixLength = 1
  /\ options.checkIndex.minCoverage = Fraction(11, 20)
  /\ Notifications("index") # {}

\* C21: both checks run on every query with an extracted field, whatever
\* the other check did: a query that lacks index coverage has its
\* LowIndexCoverage failure, or its index notification and throttle entry,
\* also when the field check has passed an InvalidField failure on, and a
\* query on an undeclared field is handled by the field check whatever the
\* index check finds.
BothChecksRun ==
  (pc = "returned" /\ queryFields # <<>>) =>
    /\ (AbsentFields # <<>> /\ ThrowMode
          /\ Truthy(options.checkField.throwMessage))
         => Failures("InvalidField") # {}
    /\ (LowCoverage /\ ThrowMode /\ Truthy(options.checkIndex.throwMessage))
         => Failures("LowIndexCoverage") # {}
    /\ (LowCoverage /\ ~(ThrowMode /\ Truthy(options.checkIndex.throwMessage))
          /\ WarnMode /\ Truthy(options.checkIndex.warnAction))
         => /\ Notifications("index") # {}
            /\ warnedIndexQueries = {ThrottleKey(queryFields)}

IndexNotifiedAfterInvalidField ==
  /\ pc = "returned"
  /\ Failures("InvalidField") # {}
  /\ Failures("LowIndexCoverage") = {}
  /\ Notifications("index") # {}
  /\ warnedIndexQueries # {}

\* C27: when the configured minCoverage is negative, zero or missing, the
\* index check takes 0 for it and finds no violation: whatever the query and
\* the collection, it passes no LowIndexCoverage failure on, invokes no
\* warnAction and adds nothing to its throttle set.
NoViolationWithoutPositiveMinimum ==
  LET m == options.checkIndex.minCoverage
  IN  (pc = "returned" /\ (m[2] = 0 \/ m[1] <= 0)) =>
        /\ ClampedMinCoverage(m) = Fraction(0, 1)
        /\ Failures("LowIndexCoverage") = {}
        /\ Notifications("index") = {}
        /\ warnedIndexQueries = {}

UncoveredQueryUnderNegativeMinimum ==
  /\ pc = "returned"
  /\ options.checkIndex.minCoverage = Fraction(-1, 4)
  /\ queryFields # <<>>
  /\ \A i \in 1..Len(CollectionIndexes) : PrefixLength(CollectionIndexes[i]) = 0
  /\ ThrowMode
  /\ Truthy(options.checkIndex.throwMessage)
  /\ Failures("LowIndexCoverage") = {}

\* C28: every metadata entry in the map has a non-empty index list: the
\* field lists of the declared indexes in declared order, and ['_id'] last;
\* so the index check of a query with fields is never left out for want of
\* indexes.
StoredIndexesEndWithId ==
  \A m \in DOMAIN modelMetadataMap :
    LET indices == modelMetadataMap[m].indices
    IN  /\ Len(indices) >= 1
        /\ indices[Len(indices)] = <<k_id>>
        /\ SubSeq(indices, 1, Len(indices) - 1) = SchemaIndexKeys(m)

CompoundIndexStoredBeforeId ==
  /\ pc = "returned"
  /\ "task" \in DOMAIN modelMetadataMap
  /\ modelMetadataMap["task"].indices = << <<k_b_a, k_a>>, <<k_id>> >>
  /\ query.modelName = "task"
  /\ Range(queryFields) = {k_a, k_b}
  /\ options.checkIndex.minCoverage = Fraction(11, 20)
  /\ ~LowCoverage
  /\ Failures("LowIndexCoverage") = {}
  /\ Notifications("index") = {}

\* C29: the record given to the field check's callbacks lists exactly the
\* extracted fields that the schema does not declare, in extraction order;
\* the record given to the index check's callbacks lists all the extracted
\* fields; both carry the collection name, the comment of the query options
\* as it is (undefined when none is given) and the filter as it is.
ViolationRecordsFaithful ==
  pc = "returned" =>
    /\ \A i \in Failures("InvalidField") :
         nextCalls[i].message.arg = FieldViolation
    /\ \A i \in Notifications("field") : warnCalls[i].arg = FieldViolation
    /\ \A i \in Failures("LowIndexCoverage") :
         nextCalls[i].message.arg = IndexViolation
    /\ \A i \in Notifications("index") : warnCalls[i].arg = IndexViolation

CommentedQueryReportedByBothChecks ==
  /\ pc = "returned"
  /\ query.options.comment = "hint"
  /\ AbsentFields # <<>>
  /\ Len(AbsentFields) < Len(queryFields)
  /\ Failures("InvalidField") # {}
  /\ Notifications("index") # {}

----------------------------------------------------------------------------
(* Properties of queries that give no field (SpecSkip). *)

\* The filter has no key that gives a field: scalar-valued keys that are
\* ignored or start with $.
NoFieldGiven(conditions) ==
  \A i \in 1..Len(conditions.entries) :
    LET entry == conditions.entries[i]
    IN  /\ ~entry.value.isArray
        /\ entry.key = k_bsontype \/ Head(entry.key) = "$"

\* C30: a query without filter conditions, or whose filter gives no field
\* (the empty filter, or ignored keys and unsupported operators only), goes
\* on at once: next() is called once without error, no callback is invoked,
\* the throttle sets stay as they are, and the metadata map is neither read
\* from the schema nor given an entry for the collection.
NoFieldsNoChecks ==
  [][(QueryStep /\ (~query'.conditions.isObject \/ NoFieldGiven(query'.conditions)))
       => /\ queryFields' = <<>>
          /\ nextCalls' = <<NoError>>
          /\ warnCalls' = <<>>
          /\ UNCHANGED <<warnedFieldQueries, warnedIndexQueries,
                         modelMetadataMap, schemaReads, notified>>]_vars

IgnoredKeysAfterNotifiedQuery ==
  /\ pc = "returned"
  /\ nQueries = 2
  /\ Keys(query.conditions.entries) = {k_bsontype, k_text}
  /\ query.modelName = "task"
  /\ DOMAIN modelMetadataMap = {"project"}
  /\ schemaReads["task"] = 0
  /\ warnedFieldQueries # {}
  /\ warnCalls = <<>>
  /\ nextCalls = <<NoError>>

----------------------------------------------------------------------------
(* Properties of the setters (SpecConfig). *)

\* What the argument of setWarnCondition or setThrowCondition says in the
\* environment e: the boolean, or what the predicate returns.
ConditionOf(condition, e) ==
  IF condition.isBoolean THEN condition.boolean
  ELSE CallPredicate(condition.fn, e)

\* C17: after setWarnCondition or setThrowCondition with a boolean b,
\* shouldWarn() or shouldThrow() returns b; after one with a predicate p it
\* returns p() as evaluated at each call; and the very next query, on
\* whichever collection, is handled under the new condition.
ConditionSettersTakeEffect ==
  [][/\ lastCall'.op = "setWarnCondition"
          => shouldWarn(options', env') = ConditionOf(lastCall'.arg, env')
     /\ lastCall'.op = "setThrowCondition"
          => shouldThrow(options', env') = ConditionOf(lastCall'.arg, env')
     /\ QueryStep /\ lastCall.op = "setWarnCondition"
          => /\ ~ConditionOf(lastCall.arg, env) => warnCalls' = <<>>
             /\ ( /\ ConditionOf(lastCall.arg, env)
                  /\ Truthy(options.checkField.warnAction)
                  /\ ~(ThrowMode /\ Truthy(options.checkField.throwMessage))
                  /\ AbsentFields' # <<>> )
                  => Notifications("field")' # {}
     /\ QueryStep /\ lastCall.op = "setThrowCondition"
          => /\ ~ConditionOf(lastCall.arg, env) => nextCalls' = <<NoError>>
             /\ ( /\ ConditionOf(lastCall.arg, env)
                  /\ Truthy(options.checkField.throwMessage)
                  /\ AbsentFields' # <<>> )
                  => Failures("InvalidField")' # {}]_vars

PredicateFollowedByQuery ==
  /\ pc = "returned"
  /\ nSetterCalls = 1
  /\ lastCall.op = "setThrowCondition"
  /\ ~lastCall.arg.isBoolean
  /\ env
  /\ query.modelName = "task"
  /\ Failures("InvalidField") # {}

DefaultMinCoverageIsQuarter ==
  (nSetterCalls = 0 /\ pc = "returned" /\ queryFields # <<>>) =>
    /\ options.checkIndex.minCoverage[1] * 4 = options.checkIndex.minCoverage[2]
    /\ Notifications("index") # {}
         <=> \A i \in 1..Len(CollectionIndexes) :
               PrefixLength(CollectionIndexes[i]) * 4
                 < Cardinality(Range(queryFields))

----------------------------------------------------------------------------
(* Several callers send one same query through the hook; checkQueryFn is
   followed statement by statement. *)

\* Each caller's invocation running on a thread of its own.
OnThreadOfItsOwn(c) == TRUE

\* checkQueryFn, checkField, checkIndex and the callbacks are synchronous
\* functions: an invocation of the hook runs to its return before another
\* one starts.
OnThread(c) ==
  \A d \in Callers \ {c} : callers[d] \in {"idle", "returned"}

At(c, label) == OnThread(c) /\ callers[c] = label

Goto(c, label) == callers' = [callers EXCEPT ![c] = label]

\* The metadata the invocation holds.
HeldMetadata == modelMetadataMap[query.modelName]

\* new SafeQuery(options) without throwMessage callbacks; no caller has
\* sent the query.
InitCallers ==
  /\ \E opts \in WarnPathOptions : Constructed(opts)
  /\ env = FALSE
  /\ NothingObserved

\* A caller's query reaches the hook: the same query as the other callers'.
\* The hook extracts the fields and, when there are some, gets the metadata.
HookEnter(c) ==
  /\ At(c, "idle")
  /\ \E modelName \in ModelNames, queryConditions \in QueryConditions :
       LET q      == [modelName |-> modelName, conditions |-> queryConditions,
                      options |-> NoComment]
           fields == getRootQueryFields(queryConditions.entries)
       IN  /\ query \in {NoQuery, q}
           /\ query' = q
           /\ IF ~queryConditions.isObject \/ Len(fields) = 0
                THEN /\ Goto(c, "return")
                     /\ queryFields' =
                          IF queryConditions.isObject THEN fields ELSE <<>>
                     /\ UNCHANGED <<modelMetadataMap, schemaReads>>
                ELSE /\ Goto(c, "checkField")
                     /\ queryFields' = fields
                     /\ modelMetadataMap' =
                          MetadataMapAfter(modelMetadataMap, modelName)
                     /\ schemaReads' =
                          SchemaReadsAfter(schemaReads, modelMetadataMap,
                                           modelName)
  /\ UNCHANGED <<options, warnedFieldQueries, warnedIndexQueries, env, pc,
                 nextCalls, warnCalls, notified, nQueries, nSetterCalls,
                 lastCall, coverage, sharing>>

\* checkField up to the test of the throttle set.
FieldTest(c) ==
  /\ At(c, "checkField")
  /\ LET violatingFields ==
           getNonExistingFields(queryFields, HeldMetadata.fields)
         violatingQuery ==
           ViolatingQuery(HeldMetadata, violatingFields, query.options,
                          query.conditions.entries)
         hashKey == FieldThrottleKey(queryFields, violatingFields)
     IN  IF Len(violatingFields) = 0
           THEN Goto(c, "checkIndex") /\ UNCHANGED nextCalls
         ELSE IF ThrowBranch(options, env, options.checkField)
           THEN /\ Goto(c, "checkIndex")
                /\ nextCalls' =
                     Append(nextCalls,
                            Failure("InvalidField",
                                    Returned(options.checkField.throwMessage,
                                             violatingQuery)))
         ELSE IF /\ WarnBranch(options, env, options.checkField)
                 /\ IsNewQuery(warnedFieldQueries, hashKey)
           THEN Goto(c, "fieldWarn") /\ UNCHANGED nextCalls
         ELSE Goto(c, "checkIndex") /\ UNCHANGED nextCalls
  /\ UNCHANGED <<engine, env, pc, query, queryFields, warnCalls, notified,
                 nQueries, nSetterCalls, lastCall, schemaReads, coverage, sharing>>

\* this.options.checkField.warnAction(violatingQuery)
FieldWarn(c) ==
  /\ At(c, "fieldWarn")
  /\ Goto(c, "fieldAdd")
  /\ LET violatingFields ==
           getNonExistingFields(queryFields, HeldMetadata.fields)
     IN  warnCalls' =
           Append(warnCalls,
                  WarnCall("field", options.checkField.warnAction,
                           ViolatingQuery(HeldMetadata, violatingFields,
                                          query.options,
                                          query.conditions.entries)))
  /\ notified' = Counted(notified, "field", queryFields)
  /\ UNCHANGED <<engine, env, pc, query, queryFields, nextCalls, nQueries,
                 nSetterCalls, lastCall, schemaReads, coverage, sharing>>

\* this.warnedFieldQueries.add(hash)
FieldAdd(c) ==
  /\ At(c, "fieldAdd")
  /\ Goto(c, "checkIndex")
  /\ LET violatingFields ==
           getNonExistingFields(queryFields, HeldMetadata.fields)
     IN  warnedFieldQueries' =
           AddWarned(warnedFieldQueries,
                     FieldThrottleKey(queryFields, violatingFields))
  /\ UNCHANGED <<options, modelMetadataMap, warnedIndexQueries, env, observed,
                 notified, nQueries, nSetterCalls, lastCall, schemaReads,
                 coverage, sharing>>

\* checkIndex up to the test of the throttle set.
IndexTest(c) ==
  /\ At(c, "checkIndex")
  /\ LET minCoverage == ClampedMinCoverage(options.checkIndex.minCoverage)
         violatingQuery ==
           ViolatingQuery(HeldMetadata, queryFields, query.options,
                          query.conditions.entries)
         hashKey == ThrottleKey(queryFields)
     IN  IF Len(HeldMetadata.indices) = 0 \/ Len(queryFields) = 0
           THEN Goto(c, "return") /\ UNCHANGED nextCalls
         ELSE IF isCoveredByIndex(queryFields, HeldMetadata.indices,
                                  minCoverage)
           THEN Goto(c, "return") /\ UNCHANGED nextCalls
         ELSE IF ThrowBranch(options, env, options.checkIndex)
           THEN /\ Goto(c, "return")
                /\ nextCalls' =
                     Append(nextCalls,
                            Failure("LowIndexCoverage",
                                    Returned(options.checkIndex.throwMessage,
                                             violatingQuery)))
         ELSE IF /\ WarnBranch(options, env, options.checkIndex)
                 /\ IsNewQuery(warnedIndexQueries, hashKey)
           THEN Goto(c, "indexWarn") /\ UNCHANGED nextCalls
         ELSE Goto(c, "return") /\ UNCHANGED nextCalls
  /\ UNCHANGED <<engine, env, pc, query, queryFields, warnCalls, notified,
                 nQueries, nSetterCalls, lastCall, schemaReads, coverage, sharing>>

\* this.options.checkIndex.warnAction(violatingQuery)
IndexWarn(c) ==
  /\ At(c, "indexWarn")
  /\ Goto(c, "indexAdd")
  /\ warnCalls' =
       Append(warnCalls,
              WarnCall("index", options.checkIndex.warnAction,
                       ViolatingQuery(HeldMetadata, queryFields, query.options,
                                      query.conditions.entries)))
  /\ notified' = Counted(notified, "index", queryFields)
  /\ UNCHANGED <<engine, env, pc, query, queryFields, nextCalls, nQueries,
                 nSetterCalls, lastCall, schemaReads, coverage, sharing>>

\* this.warnedIndexQueries.add(hash)
IndexAdd(c) ==
  /\ At(c, "indexAdd")
  /\ Goto(c, "return")
  /\ warnedIndexQueries' = AddWarned(warnedIndexQueries, ThrottleKey(queryFields))
  /\ UNCHANGED <<options, modelMetadataMap, warnedFieldQueries, env, observed,
                 notified, nQueries, nSetterCalls, lastCall, schemaReads,
                 coverage, sharing>>

\* return next()
HookReturn(c) ==
  /\ At(c, "return")
  /\ Goto(c, "returned")
  /\ nextCalls' = Append(nextCalls, NoError)
  /\ UNCHANGED <<engine, env, pc, query, queryFields, warnCalls, notified,
                 nQueries, nSetterCalls, lastCall, schemaReads, coverage, sharing>>

NextCallers ==
  \E c \in Callers :
    \/ HookEnter(c)
    \/ FieldTest(c)
    \/ FieldWarn(c)
    \/ FieldAdd(c)
    \/ IndexTest(c)
    \/ IndexWarn(c)
    \/ IndexAdd(c)
    \/ HookReturn(c)

SpecCallers == InitCallers /\ [][NextCallers]_vars

\* C24: when several callers send one same violating query through the hook
\* of one SafeQuery on the warn path, no other invocation's check comes
\* between an invocation's test of the throttle set and its insertion of
\* the digest, and each check's warnAction is invoked at most once for the
\* digest: no interleaving gives two notifications of the first occurrence.
NoDoubleNotification ==
  /\ Cardinality(Notifications("field")) <= 1
  /\ Cardinality(Notifications("index")) <= 1
  /\ \A c \in Callers :
       /\ callers[c] = "fieldAdd"
            => ThrottleKey(queryFields) \notin warnedFieldQueries
       /\ callers[c] = "indexAdd"
            => ThrottleKey(queryFields) \notin warnedIndexQueries

EveryCallerServedOneNotification ==
  /\ \A c \in Callers : callers[c] = "returned"
  /\ Len(nextCalls) = MaxCallers
  /\ AbsentFields # <<>>
  /\ LowCoverage
  /\ Cardinality(Notifications("field")) = 1
  /\ Cardinality(Notifications("index")) = 1
  /\ Cardinality(warnedFieldQueries) = 1
  /\ Cardinality(warnedIndexQueries) = 1

----------------------------------------------------------------------------
(* Properties of the throttle sets under reconfiguration (SpecThrottle). *)

\* The warnAction invocations that the records count.
RECURSIVE NotifyCount(_)
NotifyCount(records) ==
  IF records = {} THEN 0
  ELSE LET r == CHOOSE x \in records : TRUE
       IN  r.count + NotifyCount(records \ {r})

\* A clear operation: neither a query nor a setter nor a change of the
\* environment.
ClearStep ==
  /\ nQueries' = nQueries
  /\ nSetterCalls' = nSetterCalls
  /\ env' = env

\* C23: a throttle set changes only by gaining one digest in the step in
\* which its check's warnAction is invoked, or by being emptied by a clear;
\* queries without violation, on the throw path, suppressed or ignored, and
\* setter calls leave both sets as they are, so that the size of a set is
\* the number of warnAction invocations of its check since its last clear.
ThrottleSetsChangeByNotifyOrClear ==
  [][/\ warnedFieldQueries' # warnedFieldQueries
          => \/ /\ QueryStep
                /\ Notifications("field")' # {}
                /\ ThrottleKey(queryFields') \notin warnedFieldQueries
                /\ warnedFieldQueries' =
                     warnedFieldQueries \cup {ThrottleKey(queryFields')}
             \/ ClearStep /\ warnedFieldQueries' = {}
     /\ warnedIndexQueries' # warnedIndexQueries
          => \/ /\ QueryStep
                /\ Notifications("index")' # {}
                /\ ThrottleKey(queryFields') \notin warnedIndexQueries
                /\ warnedIndexQueries' =
                     warnedIndexQueries \cup {ThrottleKey(queryFields')}
             \/ ClearStep /\ warnedIndexQueries' = {}
     /\ QueryStep /\ Notifications("field")' = {}
          => warnedFieldQueries' = warnedFieldQueries
     /\ QueryStep /\ Notifications("index")' = {}
          => warnedIndexQueries' = warnedIndexQueries
     /\ Cardinality(warnedFieldQueries') =
          NotifyCount(Live(notified', "field"))
     /\ Cardinality(warnedIndexQueries') =
          NotifyCount(Live(notified', "index"))]_vars

ThrowPathLeavesSetsAlone ==
  /\ pc = "returned"
  /\ nQueries = 2
  /\ nSetterCalls = 1
  /\ Failures("InvalidField") # {}
  /\ Failures("LowIndexCoverage") # {}
  /\ Cardinality(warnedFieldQueries) = 1
  /\ Cardinality(warnedIndexQueries) = 1
  /\ \A check \in {"field", "index"} :
       \E r \in Live(notified, check) : r.fields = Range(queryFields)

----------------------------------------------------------------------------
(* Properties of queries and clears on the warn path (SpecWarn). *)

\* C5: between two clears of a check's throttle set, the check's warnAction
\* is invoked at most once for all the violating queries with the same
\* extracted field set, whatever the order of the fields in the filter; the
\* later occurrences invoke nothing.
NotifiedAtMostOnce == \A r \in notified : r.live => r.count <= 1

SecondOccurrenceSilent ==
  /\ pc = "returned"
  /\ nQueries = 2
  /\ WarnMode /\ Truthy(options.checkField.warnAction)
  /\ AbsentFields # <<>>
  /\ Notifications("field") = {}
  /\ \E r \in Live(notified, "field") :
       /\ r.fields = Range(queryFields)
       /\ r.order # queryFields
       /\ r.count = 1

\* C6 as stated: a violating query on the warn path whose extracted field
\* set differs from every field set notified since the last clear is
\* notified, whatever was notified before it.
DistinctSetsNotifyIndependently ==
  [][QueryStep /\ WarnMode =>
       /\ ( /\ Truthy(options.checkField.warnAction)
            /\ AbsentFields' # <<>>
            /\ \A r \in Live(notified, "field") : r.fields # Range(queryFields') )
            => Notifications("field")' # {}
       /\ ( /\ Truthy(options.checkIndex.warnAction)
            /\ LowCoverage'
            /\ \A r \in Live(notified, "index") : r.fields # Range(queryFields') )
            => Notifications("index")' # {}]_vars

\* C6, amended: a violating query on the warn path whose throttle digest
\* differs from the digest of every field set notified since the last clear
\* is notified, whatever was notified before it.
DistinctDigestsNotifyIndependently ==
  [][QueryStep /\ WarnMode =>
       /\ ( /\ Truthy(options.checkField.warnAction)
            /\ AbsentFields' # <<>>
            /\ \A r \in Live(notified, "field") :
                 ThrottleKey(r.order) # ThrottleKey(queryFields') )
            => Notifications("field")' # {}
       /\ ( /\ Truthy(options.checkIndex.warnAction)
            /\ LowCoverage'
            /\ \A r \in Live(notified, "index") :
                 ThrottleKey(r.order) # ThrottleKey(queryFields') )
            => Notifications("index")' # {}]_vars

TwoSetsNotified ==
  /\ pc = "returned"
  /\ nQueries = 2
  /\ Notifications("field") # {}
  /\ \E r1, r2 \in Live(notified, "field") :
       /\ r1.fields # r2.fields
       /\ r2.fields = Range(queryFields)
       /\ r1.count = 1 /\ r2.count = 1

\* C7: after clearWarnedFieldQueries (clearWarnedIndexQueries), the next
\* field-violating (index-violating) query on the warn path invokes the
\* warnAction again, also when its field set was notified before the clear.
NotifiesAgainAfterClear ==
  [][QueryStep /\ WarnMode =>
       /\ ( /\ Truthy(options.checkField.warnAction)
            /\ AbsentFields' # <<>>
            /\ Live(notified, "field") = {} )
            => Notifications("field")' # {}
       /\ ( /\ Truthy(options.checkIndex.warnAction)
            /\ LowCoverage'
            /\ Live(notified, "index") = {} )
            => Notifications("index")' # {}]_vars

NotifiedAgain ==
  /\ pc = "returned"
  /\ Notifications("field") # {}
  /\ Notifications("index") # {}
  /\ \A check \in {"field", "index"} :
       \E r \in notified :
         r.check = check /\ ~r.live /\ r.fields = Range(queryFields)

\* C8: when shouldThrow() is true but the check has no throwMessage
\* callback, a violation signals no failure and is handled by the warn
\* branch: the warnAction is invoked if and only if shouldWarn() is true, a
\* warnAction is configured and the digest is new; no failure message is
\* made up.
MissingMessageFallsToWarn ==
  [][QueryStep /\ ThrowMode =>
       /\ ( /\ ~Truthy(options.checkField.throwMessage)
            /\ AbsentFields' # <<>> )
            => /\ Failures("InvalidField")' = {}
               /\ Notifications("field")' # {}
                    <=> /\ WarnMode
                        /\ Truthy(options.checkField.warnAction)
                        /\ ThrottleKey(queryFields') \notin warnedFieldQueries
       /\ ( /\ ~Truthy(options.checkIndex.throwMessage)
            /\ LowCoverage' )
            => /\ Failures("LowIndexCoverage")' = {}
               /\ Notifications("index")' # {}
                    <=> /\ WarnMode
                        /\ Truthy(options.checkIndex.warnAction)
                        /\ ThrottleKey(queryFields') \notin warnedIndexQueries]_vars

DowngradedToWarning ==
  /\ pc = "returned"
  /\ ThrowMode
  /\ options.checkField.throwMessage = Undefined
  /\ options.checkIndex.throwMessage = Undefined
  /\ AbsentFields # <<>>
  /\ LowCoverage
  /\ Notifications("field") # {}
  /\ Notifications("index") # {}
  /\ nextCalls = <<NoError>>

----------------------------------------------------------------------------
(* Properties of the field extractor (SpecExtract). *)

\* The keys reached from a filter by un-nesting the sequences under $and,
\* $or and $nor, to any depth.
RECURSIVE ReachableKeys(_)
ReachableKeys(f) ==
  UNION {
    IF f[i].key \in {k_and, k_or, k_nor} /\ f[i].value.isArray
      THEN UNION {ReachableKeys(f[i].value.items[j]) :
                    j \in 1..Len(f[i].value.items)}
      ELSE {f[i].key}
    : i \in 1..Len(f) }

\* The first path segments of the reachable keys that are neither on the
\* ignore list nor operators.
ExpectedRootFields(f) ==
  {FirstSegment(k) :
     k \in {r \in ReachableKeys(f) : r # k_bsontype /\ r[1] # "$"}}

\* C10: for every filter built from plain or dotted field keys, ignore-list
\* keys, $and/$or/$nor over sequences of sub-filters nested to any depth and
\* other $-operators, getRootQueryFields returns exactly the distinct first
\* path segments of the non-ignored, non-$ keys reachable by un-nesting the
\* three combinators; ignore-list keys and other operators contribute
\* nothing even with a sequence as value, and the empty filter yields nothing.
ExtractsRootFields ==
  pc = "returned" /\ query.conditions.isObject =>
    /\ Range(queryFields) = ExpectedRootFields(query.conditions.entries)
    /\ NoDuplicates(queryFields)
    /\ query.conditions.entries = <<>> => queryFields = <<>>

NestedDottedKeyExtracted ==
  LET f == query.conditions.entries
  IN  /\ pc = "returned"
      /\ Len(f) = 1
      /\ f[1].key = k_nor
      /\ f[1].value.isArray
      /\ Len(f[1].value.items) = 2
      /\ f[1].value.items[1] = <<Entry(k_b_a, Scalar)>>
      /\ Keys(f[1].value.items[2]) = {k_text}
      /\ queryFields = <<k_b>>

----------------------------------------------------------------------------
(* Properties of the coverage evaluator (SpecCoverage). *)

\* C11: for a non-empty query field list, isCoveredByIndex returns true if
\* and only if some index has a leading run of fields, compared by first
\* segment and ending before the first field that is no query field, of
\* length p with p / count(queryFields) >= minCoverage; the index fields
\* after the first one that does not match earn nothing.
CoverageByLeadingPrefix ==
  pc = "returned" /\ queryFields # <<>> =>
    ( isCovered <=>
        \E i \in 1..Len(coverageCall.indices) :
          PrefixLength(coverageCall.indices[i]) * coverageCall.minCoverage[2]
            >= coverageCall.minCoverage[1] * Len(queryFields) )

NoCreditAfterMismatch ==
  /\ pc = "returned"
  /\ queryFields = <<k_a>>
  /\ coverageCall.indices = << <<k_b_a, k_a>> >>
  /\ coverageCall.minCoverage = Fraction(1, 2)
  /\ ~isCovered

\* The list with its repetitions removed, first occurrences kept.
Deduplicated(fields) == SetAddAll(<<>>, fields)

\* C12: repeated query fields do not change the verdict: isCoveredByIndex
\* returns for a field list what it returns for the list with the
\* repetitions removed, for every index list and minCoverage.
DuplicatesKeepVerdict ==
  pc = "returned" =>
    isCovered = isCoveredByIndex(Deduplicated(queryFields),
                                 coverageCall.indices, coverageCall.minCoverage)

\* C13: for the empty query field list isCoveredByIndex returns true, for
\* every index list and minCoverage.
EmptyFieldListCovered ==
  pc = "returned" /\ queryFields = <<>> => isCovered

\* C26: for every query field list and every index, the covered count that
\* isCoveredByIndex computes is at most the number of query fields, so that
\* the coverage lies between 0 and 1.
CoverageAtMostOne ==
  pc = "returned" =>
    \A i \in 1..Len(coverageCall.indices) :
      LET covered == coveredFieldCount(coverageCall.indices[i],
                                       Range(queryFields))
      IN  0 <= covered /\ covered <= Len(queryFields)

----------------------------------------------------------------------------
(* More properties of the throttle sets (SpecThrottle). *)

\* C22: the throttle digest is taken of the whole extracted field set,
\* not of the violating fields or the collection: once a check's warnAction
\* has been invoked for a field set, a later query with the same extracted
\* field set does not invoke that check's warnAction before the check's
\* throttle set is cleared, whichever collection it is on and whichever of
\* its fields violate.
SameFieldSetThrottled ==
  [][QueryStep =>
       \A check \in {"field", "index"} :
         (\E r \in Live(notified, check) : r.fields = Range(queryFields'))
           => Notifications(check)' = {}]_vars

SameFieldsOnOtherCollectionSilent ==
  /\ pc = "returned"
  /\ nQueries = 2
  /\ WarnMode /\ Truthy(options.checkField.warnAction)
  /\ query.modelName = "task"
  /\ DOMAIN modelMetadataMap = {"project", "task"}
  /\ Range(queryFields) = {k_a, k_b}
  /\ AbsentFields = <<k_a>>
  /\ Notifications("field") = {}
  /\ \E r \in Live(notified, "field") :
       r.fields = Range(queryFields) /\ r.count = 1

\* C25: the two throttle sets are independent: what the field check has
\* notified does not keep the index check from notifying the same field set
\* and the other way round, clearWarnedFieldQueries leaves the index set as
\* it is and clearWarnedIndexQueries leaves the field set as it is.
ThrottleSetsIndependent ==
  [][/\ (QueryStep /\ WarnMode)
          => /\ ( /\ Truthy(options.checkField.warnAction)
                  /\ ~(ThrowMode /\ Truthy(options.checkField.throwMessage))
                  /\ AbsentFields' # <<>>
                  /\ ThrottleKey(queryFields') \notin warnedFieldQueries )
                  => Notifications("field")' # {}
             /\ ( /\ Truthy(options.checkIndex.warnAction)
                  /\ ~(ThrowMode /\ Truthy(options.checkIndex.throwMessage))
                  /\ LowCoverage'
                  /\ ThrottleKey(queryFields') \notin warnedIndexQueries )
                  => Notifications("index")' # {}
     /\ ClearStep
          => \/ /\ warnedFieldQueries' = {}
                /\ warnedIndexQueries' = warnedIndexQueries
             \/ /\ warnedIndexQueries' = {}
                /\ warnedFieldQueries' = warnedFieldQueries]_vars

FieldNotifiedAgainIndexStillThrottled ==
  /\ pc = "returned"
  /\ nQueries = 2
  /\ AbsentFields # <<>>
  /\ LowCoverage
  /\ Notifications("field") # {}
  /\ Notifications("index") = {}
  /\ \E r \in notified :
       r.check = "field" /\ ~r.live /\ r.fields = Range(queryFields)
  /\ \E r \in Live(notified, "index") :
       r.fields = Range(queryFields) /\ r.count = 1

----------------------------------------------------------------------------
(* Properties of the metadata cache (SpecWarn). *)

\* C19: the metadata cache is written once per key: a model name has its
\* entry from the first checked query on it, the model's schema is read at
\* most once per name, an entry stays as first stored, and a later
\* getMetadata for the name returns the stored entry without a read.
MetadataWrittenOncePerName ==
  [][/\ \A m \in ModelNames :
          /\ schemaReads'[m] <= 1
          /\ m \in DOMAIN modelMetadataMap' <=> schemaReads'[m] = 1
     /\ \A m \in DOMAIN modelMetadataMap :
          /\ m \in DOMAIN modelMetadataMap'
          /\ modelMetadataMap'[m] = modelMetadataMap[m]
          /\ getMetadata(modelMetadataMap, m) = modelMetadataMap[m]
     /\ QueryStep /\ query'.modelName \in DOMAIN modelMetadataMap
          => /\ modelMetadataMap' = modelMetadataMap
             /\ schemaReads' = schemaReads]_vars

SecondQueryServedFromCache ==
  /\ nQueries = 2
  /\ pc = "returned"
  /\ queryFields # <<>>
  /\ query.modelName = "task"
  /\ DOMAIN modelMetadataMap = {"task"}
  /\ Cardinality(warnedFieldQueries) = 2
  /\ schemaReads = [m \in ModelNames |-> IF m = "task" THEN 1 ELSE 0]

----------------------------------------------------------------------------
(* Several SafeQuery instances of one program, and the handler objects the
   program passes to their setters.  Objects are followed by identity: a
   setter stores the object it is given, not a copy of it. *)

Instances == 1..MaxInstances

\* The two handler properties of this.options.
HandlerKinds == {"checkField", "checkIndex"}

\* The handler object the program keeps for a check and passes again.
CallerObject(kind) == <<"caller", 0, kind>>

\* The handler object only instance i refers to: the one its constructor
\* made, or an object literal given to its setter.
OwnObject(i, kind) == <<"own", i, kind>>

Objects ==
  {CallerObject(kind) : kind \in HandlerKinds} \cup
    {OwnObject(i, kind) : i \in Instances, kind \in HandlerKinds}

\* this.options.checkField or this.options.checkIndex of instance i.
HandlerOf(i, kind) == heap[held[i][kind]]

SetterOf(kind) ==
  IF kind = "checkField" THEN "setFieldCheckHandler" ELSE "setIndexCheckHandler"

\* Each instance is constructed with or without throwMessage callbacks;
\* _.defaultsDeep({}, options, DEFAULT_OPTIONS) gives it handler objects of
\* its own.  The program has written one partial handler per check.
InitShared ==
  /\ Constructed(NoOptions)
  /\ env = FALSE
  /\ pc = "idle"
  /\ query = NoQuery
  /\ queryFields = <<>>
  /\ nextCalls = <<>>
  /\ warnCalls = <<>>
  /\ notified = {}
  /\ nQueries = 0
  /\ nSetterCalls = 0
  /\ lastCall = NoCall
  /\ schemaReads = [m \in ModelNames |-> 0]
  /\ coverageCall = NoCoverageCall
  /\ isCovered = FALSE
  /\ callers = NoCallers
  /\ defined \in [checkField : FieldHandlerArgs, checkIndex : IndexHandlerArgs]
  /\ \E opts \in [Instances -> {NoOptions, ThrowReadyOptions}] :
       heap = [o \in Objects |->
                 IF o[1] = "caller"
                   THEN defined[o[3]]
                   ELSE DefaultsDeep(opts[o[2]], DEFAULT_OPTIONS)[o[3]]]
  /\ held = [i \in Instances |-> [kind \in HandlerKinds |-> OwnObject(i, kind)]]

\* _.defaults(object, source) assigns to object, its first argument, and
\* returns it.
DefaultsOnto(heapNow, passed, merged) == [heapNow EXCEPT ![passed] = merged]

\* this.options[kind] = _.defaults(handler, this.options[kind]) on instance
\* i, the handler being the object `passed` with the properties `given`.
SetHandler(i, kind, passed, given) ==
  /\ nSetterCalls < MaxHandlerCalls
  /\ nSetterCalls' = nSetterCalls + 1
  /\ heap' = DefaultsOnto(heap, passed, Defaults(given, HandlerOf(i, kind)))
  /\ held' = [held EXCEPT ![i][kind] = passed]
  /\ lastCall' = SetterCall(SetterOf(kind), [instance |-> i, handler |-> passed])
  /\ UNCHANGED <<engine, env, observed, notified, nQueries, schemaReads,
                 coverage, callers, defined>>

\* The program passes the handler object it keeps.
PassKept(i, kind) ==
  SetHandler(i, kind, CallerObject(kind), heap[CallerObject(kind)])

\* The program passes a copy of it, { ...handler }, that it does not keep.
PassCopy(i, kind) ==
  SetHandler(i, kind, OwnObject(i, kind), heap[CallerObject(kind)])

setFieldCheckHandlerOf(i) ==
  \/ PassKept(i, "checkField")
  \/ PassCopy(i, "checkField")

setIndexCheckHandlerOf(i) ==
  \/ PassKept(i, "checkIndex")
  \/ PassCopy(i, "checkIndex")

NextShared ==
  \E i \in Instances :
    \/ setFieldCheckHandlerOf(i)
    \/ setIndexCheckHandlerOf(i)

SpecShared == InitShared /\ [][NextShared]_vars

\* A handler setter has been called on instance i for the check.
HandlerSetStep(i, kind) ==
  /\ nSetterCalls' # nSetterCalls
  /\ lastCall'.op = SetterOf(kind)
  /\ lastCall'.arg.instance = i

\* C31: setFieldCheckHandler and setIndexCheckHandler leave the handler
\* object they are given as the program wrote it; the instance they are
\* called on then has the properties the program defined in the handler and
\* its own earlier ones for the rest, and the handlers of the other
\* instances are as before: nothing configured on one instance (such as a
\* throwMessage) reaches another through a handler passed to both.
HandlerArgumentUntouched ==
  [][\A i \in Instances, kind \in HandlerKinds :
       HandlerSetStep(i, kind)
         => /\ heap'[CallerObject(kind)] = defined[kind]
            /\ HandlerOf(i, kind)' = Defaults(defined[kind], HandlerOf(i, kind))
            /\ \A j \in Instances \ {i} :
                 HandlerOf(j, kind)' = HandlerOf(j, kind)]_vars

====
